---- MODULE Spec2Model ----
(***************************************************************************)
(* Conversation store and agent-call flow of the Lyzr support assistant    *)
(* page (src/src/pages/Home.tsx; the unnamed variants carry the same       *)
(* logic under different styling).                                         *)
(*                                                                         *)
(* One action stands for one run of a handler or continuation together     *)
(* with the re-render and the effects React flushes before the next event  *)
(* is dispatched, so the values a handler closes over (isLoading,          *)
(* activeConversationId) are the current state.                            *)
(*                                                                         *)
(* Text is a sequence of one-character strings, so that trim() and         *)
(* slice(0, 50) are computed rather than assumed.                          *)
(***************************************************************************)
EXTENDS Integers, Sequences, FiniteSets, TLC

\* ------------------------------------------------------------------ bounds
MaxClock == 3          \* largest clock reading explored
MaxSession == 4        \* conversations in the list plus accepted sends, at most

\* --------------------------------------------------------------- constants
TitleLen == 50         \* messageText.slice(0, 50)

VARIABLES
    phase,                  \* "mount" before the mount effects, "ready", "crashed"
    conversations,          \* useState<Conversation[]>([])
    activeConversationId,   \* useState<string | null>(null)
    isLoading,              \* useState(false)
    storage,                \* localStorage item 'lyzr-conversations'
    storageFull,            \* localStorage.setItem throws (quota exceeded, storage disabled)
    calls,                  \* suspended handleSendMessage continuations (await callAIAgent)
    now,                    \* last reading of the clock
    requests,               \* history: number of callAIAgent invocations issued
    rejected                \* history: the last step was a submit that was turned away

vars == <<phase, conversations, activeConversationId, isLoading, storage,
          storageFull, calls, now, requests, rejected>>

\* ------------------------------------------------------------------- text
Min(a, b) == IF a < b THEN a ELSE b

\* a slice that does not cut
sliceWhole(s, n) == s

\* String.prototype.slice(0, n)
slice(s, n) == SubSeq(s, 1, Min(Len(s), n))

IsWhiteSpace(c) == c \in {" ", "\t", "\n"}

RECURSIVE trimStart(_)
trimStart(s) ==
    IF s # <<>> /\ IsWhiteSpace(Head(s)) THEN trimStart(Tail(s)) ELSE s

RECURSIVE trimEnd(_)
trimEnd(s) ==
    IF s # <<>> /\ IsWhiteSpace(s[Len(s)])
    THEN trimEnd(SubSeq(s, 1, Len(s) - 1))
    ELSE s

\* String.prototype.trim()
trim(s) == trimEnd(trimStart(s))

Digit(d) == <<"0", "1", "2", "3", "4", "5", "6", "7", "8", "9">>[d + 1]

\* Number.prototype.toString() of a non-negative integer
RECURSIVE toString(_)
toString(n) ==
    IF n < 10 THEN <<Digit(n)>> ELSE toString(n \div 10) \o <<Digit(n % 10)>>

\* null; a string is falsy exactly when it is empty, so !convId is convId = NoId
NoId == <<>>

Truthy(s) == s # <<>>

DefaultTitle ==
    <<"N", "e", "w", " ", "C", "o", "n", "v", "e", "r", "s", "a", "t", "i", "o", "n">>

ErrorFallbackText ==
    <<"S", "o", "r", "r", "y", ",", " ", "I", " ", "e", "n", "c", "o", "u", "n",
      "t", "e", "r", "e", "d", " ", "a", "n", " ", "e", "r", "r", "o", "r", " ",
      "p", "r", "o", "c", "e", "s", "s", "i", "n", "g", " ", "y", "o", "u", "r",
      " ", "r", "e", "q", "u", "e", "s", "t", ".">>

NetworkErrorText ==
    <<"S", "o", "r", "r", "y", ",", " ", "I", " ", "e", "n", "c", "o", "u", "n",
      "t", "e", "r", "e", "d", " ", "a", " ", "n", "e", "t", "w", "o", "r", "k",
      " ", "e", "r", "r", "o", "r", ".", " ", "P", "l", "e", "a", "s", "e", " ",
      "t", "r", "y", " ", "a", "g", "a", "i", "n", ".">>

\* ----------------------------------------------------------------- inputs
LongText == [i \in 1..(TitleLen + 2) |-> IF i <= TitleLen THEN "x" ELSE "y"]

\* texts handed to submit-text: empty, blank, short and padded, longer than a title
Texts == { <<>>, <<" ", "\t">>, <<" ", "H", "i">>, LongText }

\* readings the clock can give after the reading t
ClockReads(t) == t..MaxClock

\* ------------------------------------------------------------- data model
\* An optional field is a sequence of length 0 (absent) or 1 (present).
Absent == <<>>
Present(v) == <<v>>

\* interface AgentResult
AgentResult(answer, sources, related_topics, confidence) ==
    [answer |-> answer, sources |-> sources,
     related_topics |-> related_topics, confidence |-> confidence]

\* interface Message
Message(id, role, content, timestamp, response) ==
    [id |-> id, role |-> role, content |-> content,
     timestamp |-> timestamp, response |-> response]

\* interface Conversation
Conversation(id, title, messages, timestamp) ==
    [id |-> id, title |-> title, messages |-> messages, timestamp |-> timestamp]

\* conversations.find(c => c.id === activeConversationId): index of the first
\* match, 0 when there is none
RECURSIVE findIndex(_, _, _)
findIndex(list, id, i) ==
    IF i > Len(list) THEN 0
    ELSE IF list[i].id = id THEN i
    ELSE findIndex(list, id, i + 1)

activeConversation == findIndex(conversations, activeConversationId, 1)

\* String.prototype.toLowerCase on the letters A to Z; other characters stay
UpperCase ==
    <<"A", "B", "C", "D", "E", "F", "G", "H", "I", "J", "K", "L", "M",
      "N", "O", "P", "Q", "R", "S", "T", "U", "V", "W", "X", "Y", "Z">>

LowerCase ==
    <<"a", "b", "c", "d", "e", "f", "g", "h", "i", "j", "k", "l", "m",
      "n", "o", "p", "q", "r", "s", "t", "u", "v", "w", "x", "y", "z">>

ToLower ==
    [c \in { UpperCase[n] : n \in 1..Len(UpperCase) } |->
        LowerCase[CHOOSE n \in 1..Len(UpperCase) : UpperCase[n] = c]]

UpperLetters == DOMAIN ToLower

toLowerCase(text) ==
    [i \in 1..Len(text) |->
        IF text[i] \in UpperLetters THEN ToLower[text[i]] ELSE text[i]]

\* String.prototype.includes: the search string occurs at some offset
includes(text, search) ==
    \E offset \in 0..(Len(text) - Len(search)) :
       \A k \in 1..Len(search) : text[offset + k] = search[k]

\* what can be typed into the search box
Queries == { <<>>, <<"n", "E">> }

\* the filter comparing the title and the query as they are
filteredConversationsCaseSensitive(list, searchQuery) ==
    SelectSeq(list, LAMBDA conv : includes(conv.title, searchQuery))

\* conversations.filter(conv =>
\*     conv.title.toLowerCase().includes(searchQuery.toLowerCase()))
filteredConversations(list, searchQuery) ==
    SelectSeq(list, LAMBDA conv :
                       includes(toLowerCase(conv.title), toLowerCase(searchQuery)))

\* ----------------------------------------------------------- persistence
\* stringifyMessage that writes a missing response as null
stringifyMessageWritingNull(m) ==
    [id |-> m.id, role |-> m.role, content |-> m.content,
     timestamp |-> m.timestamp,
     response |-> IF m.response = Absent THEN "null" ELSE m.response[1]]

\* JSON.stringify drops a property whose value is undefined, so a message
\* without a response is written as an object without that key.
stringifyMessage(m) ==
    IF m.response = Absent
    THEN [id |-> m.id, role |-> m.role, content |-> m.content,
          timestamp |-> m.timestamp]
    ELSE [id |-> m.id, role |-> m.role, content |-> m.content,
          timestamp |-> m.timestamp, response |-> m.response[1]]

stringifyConversation(c) ==
    [id |-> c.id, title |-> c.title, timestamp |-> c.timestamp,
     messages |-> [j \in 1..Len(c.messages) |-> stringifyMessage(c.messages[j])]]

\* JSON.stringify(conversations): the stored text, held as the JSON value it spells
JSONstringify(list) ==
    [kind |-> "array",
     items |-> [i \in 1..Len(list) |-> stringifyConversation(list[i])]]

parseMessage(o) ==
    Message(o.id, o.role, o.content, o.timestamp,
            IF "response" \in DOMAIN o THEN Present(o.response) ELSE Absent)

parseConversation(o) ==
    Conversation(o.id, o.title,
                 [j \in 1..Len(o.messages) |-> parseMessage(o.messages[j])],
                 o.timestamp)

\* JSON.parse(saved) of a stored array
JSONparse(item) == [i \in 1..Len(item.items) |-> parseConversation(item.items[i])]

\* localStorage.getItem returned null
NoItem == [kind |-> "none"]

\* a conversation list written by an earlier session, whose clock readings
\* all lie before this session's
StoredClock == 1

StoredReply ==
    AgentResult(<<"o", "k">>, << <<"u">> >>, << <<"t">> >>, 1)

StoredList ==
    << Conversation(toString(StoredClock - 1), <<"Y", "o">>,
         << Message(toString(StoredClock - 1), "user", <<"Y", "o">>,
                    StoredClock - 1, Absent),
            Message(toString(StoredClock), "agent", StoredReply.answer,
                    StoredClock - 1, Present(StoredReply)) >>,
         StoredClock - 1) >>

\* what the key can hold when the page loads: nothing, text that is not
\* JSON, the JSON values null and {}, or a list an earlier session wrote;
\* "unreadable" is a storage whose getItem throws
StoredItems ==
    { NoItem, [kind |-> "malformed"], [kind |-> "null"], [kind |-> "object"],
      [kind |-> "unreadable"], JSONstringify(StoredList) }

\* ----------------------------------------------------------- agent adapter
\* What await callAIAgent(messageText, AGENT_ID) can produce, as far as
\* handleSendMessage looks at it: it throws, or it returns
\* { success, response: { status, result }, error }.  An error text that is
\* undefined or empty is <<>> (both are falsy); for a call that throws, error
\* is the message of what was thrown.
NoResult == AgentResult(<<>>, <<>>, <<>>, 0)

AgentOutcome(throws, success, status, result, error) ==
    [throws |-> throws, success |-> success, status |-> status,
     result |-> result, error |-> error]

AgentOutcomes ==
    { AgentOutcome(FALSE, TRUE, "success",
                   AgentResult(<<"o", "k">>, << <<"u">> >>, << <<"t">> >>, 1), <<>>),
      AgentOutcome(FALSE, TRUE, "error", NoResult, <<>>),
      AgentOutcome(FALSE, FALSE, "error", NoResult, <<"n", "o">>),
      AgentOutcome(FALSE, FALSE, "error", NoResult, <<>>),
      AgentOutcome(TRUE, FALSE, "error", NoResult, <<"n", "o">>) }

\* result.success && result.response.status === 'success'
IsSuccess(result) == ~result.throws /\ result.success /\ result.status = "success"

\* ------------------------------------------------------- state updaters
\* prepend that puts the new conversation behind the others
prependAtEnd(prev, newConv) == prev \o <<newConv>>

\* prepend that starts the list over with the new conversation
prependReplacing(prev, newConv) == <<newConv>>

\* prev => [newConv, ...prev]
prepend(prev, newConv) == <<newConv>> \o prev

\* appendUserMessage that stores the trimmed text as the content
appendUserMessageTrimmed(prev, convId, userMessage, messageText) ==
    [i \in 1..Len(prev) |->
        IF prev[i].id = convId
        THEN [prev[i] EXCEPT
                !.messages = Append(@, [userMessage EXCEPT !.content = trim(@)]),
                !.title = IF Len(prev[i].messages) = 0
                          THEN slice(messageText, TitleLen)
                          ELSE @]
        ELSE prev[i]]

\* appendUserMessage that derives the title from every message
appendUserMessageRetitling(prev, convId, userMessage, messageText) ==
    [i \in 1..Len(prev) |->
        IF prev[i].id = convId
        THEN [prev[i] EXCEPT
                !.messages = Append(@, userMessage),
                !.title = slice(messageText, TitleLen)]
        ELSE prev[i]]

\* prev => prev.map(conv => conv.id === convId
\*     ? { ...conv, messages: [...conv.messages, userMessage],
\*         title: conv.messages.length === 0 ? messageText.slice(0, 50) : conv.title }
\*     : conv)
appendUserMessage(prev, convId, userMessage, messageText) ==
    [i \in 1..Len(prev) |->
        IF prev[i].id = convId
        THEN [prev[i] EXCEPT
                !.messages = Append(@, userMessage),
                !.title = IF Len(prev[i].messages) = 0
                          THEN slice(messageText, TitleLen)
                          ELSE @]
        ELSE prev[i]]

\* appendReply that puts the reply before the messages already there
appendReplyAtFront(prev, convId, message) ==
    [i \in 1..Len(prev) |->
        IF prev[i].id = convId
        THEN [prev[i] EXCEPT !.messages = <<message>> \o @]
        ELSE prev[i]]

\* prev => prev.map(conv => conv.id === convId
\*     ? { ...conv, messages: [...conv.messages, message] } : conv)
appendReply(prev, convId, message) ==
    [i \in 1..Len(prev) |->
        IF prev[i].id = convId
        THEN [prev[i] EXCEPT !.messages = Append(@, message)]
        ELSE prev[i]]

\* replyMessage that forgets the structured response
replyMessageWithoutResponse(result, t) ==
    IF result.throws
    THEN Message(toString(t + 1), "agent", NetworkErrorText, t, Absent)
    ELSE IF IsSuccess(result)
    THEN Message(toString(t + 1), "agent", result.result.answer, t, Absent)
    ELSE Message(toString(t + 1), "agent",
                 IF Truthy(result.error) THEN result.error ELSE ErrorFallbackText,
                 t, Absent)

\* replyMessage that shows result.error without the fallback
replyMessageWithoutFallback(result, t) ==
    IF result.throws
    THEN Message(toString(t + 1), "agent", NetworkErrorText, t, Absent)
    ELSE IF IsSuccess(result)
    THEN Message(toString(t + 1), "agent", result.result.answer, t,
                 Present(result.result))
    ELSE Message(toString(t + 1), "agent", result.error, t, Absent)

\* replyMessage that never shows result.error
replyMessageFallbackOnly(result, t) ==
    IF result.throws
    THEN Message(toString(t + 1), "agent", NetworkErrorText, t, Absent)
    ELSE IF IsSuccess(result)
    THEN Message(toString(t + 1), "agent", result.result.answer, t,
                 Present(result.result))
    ELSE Message(toString(t + 1), "agent", ErrorFallbackText, t, Absent)

\* replyMessage whose catch shows the message of what was thrown
replyMessageWithExceptionText(result, t) ==
    IF result.throws
    THEN Message(toString(t + 1), "agent",
                 IF Truthy(result.error) THEN result.error ELSE NetworkErrorText,
                 t, Absent)
    ELSE IF IsSuccess(result)
    THEN Message(toString(t + 1), "agent", result.result.answer, t,
                 Present(result.result))
    ELSE Message(toString(t + 1), "agent",
                 IF Truthy(result.error) THEN result.error ELSE ErrorFallbackText,
                 t, Absent)

\* the message built from the outcome of the call, at clock reading t
replyMessage(result, t) ==
    IF result.throws
    THEN Message(toString(t + 1), "agent", NetworkErrorText, t, Absent)
    ELSE IF IsSuccess(result)
    THEN Message(toString(t + 1), "agent", result.result.answer, t,
                 Present(result.result))
    ELSE Message(toString(t + 1), "agent",
                 IF Truthy(result.error) THEN result.error ELSE ErrorFallbackText,
                 t, Absent)

\* saveEffect without the test of the length
saveEffectAlways(list) ==
    IF storageFull
    THEN storage' = storage /\ phase' = "crashed"
    ELSE storage' = JSONstringify(list) /\ phase' = "ready"

\* saveEffect that starts writing at the second conversation
saveEffectFromSecond(list) ==
    IF Len(list) > 1
    THEN IF storageFull
         THEN storage' = storage /\ phase' = "crashed"
         ELSE storage' = JSONstringify(list) /\ phase' = "ready"
    ELSE storage' = storage /\ phase' = "ready"

\* The save effect that runs after a render in which conversations changed:
\* nothing for an empty list, otherwise setItem, which stores the text or
\* throws; nothing catches what an effect throws, so the page is unmounted.
saveEffect(list) ==
    IF Len(list) > 0
    THEN IF storageFull
         THEN storage' = storage /\ phase' = "crashed"
         ELSE storage' = JSONstringify(list) /\ phase' = "ready"
    ELSE storage' = storage /\ phase' = "ready"

\* ----------------------------------------------------------------- actions
Init ==
    /\ phase = "mount"
    /\ conversations = <<>>
    /\ activeConversationId = NoId
    /\ isLoading = FALSE
    /\ storage \in StoredItems
    /\ storageFull \in BOOLEAN
    /\ calls = <<>>
    /\ now = StoredClock + 1
    /\ requests = 0
    /\ rejected = FALSE

\* Load without the try around JSON.parse
LoadWithoutCatch ==
    /\ phase = "mount"
    /\ rejected' = FALSE
    /\ UNCHANGED <<isLoading, storageFull, calls, now, requests>>
    /\ CASE storage.kind = "none" ->
              /\ UNCHANGED <<conversations, activeConversationId>>
              /\ saveEffect(conversations)
         [] storage.kind \in {"unreadable", "malformed"} ->
              /\ phase' = "crashed"
              /\ UNCHANGED <<conversations, activeConversationId, storage>>
         [] storage.kind \in {"null", "object"} ->
              /\ phase' = "crashed"
              /\ UNCHANGED <<conversations, activeConversationId, storage>>
         [] storage.kind = "array" ->
              LET parsed == JSONparse(storage) IN
              /\ conversations' = parsed
              /\ activeConversationId' =
                    IF Len(parsed) > 0 THEN parsed[1].id ELSE activeConversationId
              /\ saveEffect(parsed)

\* The mount effects and the render that follows them.
Load ==
    /\ phase = "mount"
    /\ rejected' = FALSE
    /\ UNCHANGED <<isLoading, storageFull, calls, now, requests>>
    /\ CASE storage.kind \in {"none", "malformed"} ->
              \* nothing saved, or JSON.parse threw and the catch logged it;
              \* the save effect of the first render sees the empty list
              /\ UNCHANGED <<conversations, activeConversationId>>
              /\ saveEffect(conversations)
         [] storage.kind = "unreadable" ->
              \* getItem is called outside the try: the effect throws
              /\ phase' = "crashed"
              /\ UNCHANGED <<conversations, activeConversationId, storage>>
         [] storage.kind \in {"null", "object"} ->
              \* setConversations(parsed) with a value that is not an array:
              \* the next render throws at conversations.find
              /\ phase' = "crashed"
              /\ UNCHANGED <<conversations, activeConversationId, storage>>
         [] storage.kind = "array" ->
              \* the save effect of the first render sees the empty list and
              \* does nothing; the one after the re-render sees the parsed list
              LET parsed == JSONparse(storage) IN
              /\ conversations' = parsed
              /\ activeConversationId' =
                    IF Len(parsed) > 0 THEN parsed[1].id ELSE activeConversationId
              /\ saveEffect(parsed)

handleNewChat ==
    /\ phase = "ready"
    /\ Len(conversations) + requests < MaxSession
    /\ \E t \in ClockReads(now) :
          LET newConv == Conversation(toString(t), DefaultTitle, <<>>, t) IN
          /\ now' = t
          /\ conversations' = prepend(conversations, newConv)
          /\ activeConversationId' = newConv.id
          /\ saveEffect(conversations')
    /\ rejected' = FALSE
    /\ UNCHANGED <<isLoading, storageFull, calls, requests>>

\* onClick={() => setActiveConversationId(conv.id)} on a listed conversation
selectConversation ==
    /\ phase = "ready"
    /\ \E i \in 1..Len(conversations) :
          activeConversationId' = conversations[i].id
    /\ rejected' = FALSE
    /\ UNCHANGED <<phase, conversations, isLoading, storage, storageFull,
                   calls, now, requests>>

\* the guard testing the text as typed instead of the trimmed text
sendRejectedUntrimmed(messageText) == ~Truthy(messageText) \/ isLoading

\* the guard without its isLoading test
sendRejectedIgnoringLoading(messageText) == ~Truthy(trim(messageText))

\* if (!messageText.trim() || isLoading) return
sendRejected(messageText) == ~Truthy(trim(messageText)) \/ isLoading

\* handleSendMessage up to the await
handleSendMessage(messageText) ==
    /\ phase = "ready"
    /\ UNCHANGED storageFull
    /\ IF sendRejected(messageText)
       THEN /\ rejected' = TRUE
            /\ UNCHANGED <<phase, conversations, activeConversationId,
                           isLoading, storage, calls, now, requests>>
       ELSE /\ Len(conversations) + requests
                  + (IF Truthy(activeConversationId) THEN 1 ELSE 2) <= MaxSession
            /\ rejected' = FALSE
            /\ \E t1 \in ClockReads(now) :
               \E t2 \in ClockReads(t1) :
                  LET create == ~Truthy(activeConversationId)
                      newConv == Conversation(toString(t1),
                                     slice(messageText, TitleLen), <<>>, t1)
                      convId == IF create THEN newConv.id
                                ELSE activeConversationId
                      created == IF create
                                 THEN prepend(conversations, newConv)
                                 ELSE conversations
                      userMessage == Message(toString(t2), "user",
                                             messageText, t2, Absent)
                  IN
                  /\ create \/ t1 = now
                  /\ now' = t2
                  /\ conversations' =
                        appendUserMessage(created, convId, userMessage, messageText)
                  /\ activeConversationId' =
                        IF create THEN convId ELSE activeConversationId
                  /\ isLoading' = TRUE
                  /\ calls' = Append(calls,
                        [convId |-> convId, messageText |-> messageText])
                  /\ saveEffect(conversations')
            /\ requests' = requests + 1

\* handleSendMessage from the await on: call k returned or threw `result`
\* and the clock reads t
agentReturned(k, result, t) ==
    /\ phase = "ready"
    /\ k \in 1..Len(calls)
    /\ now' = t
    /\ conversations' =
          appendReply(conversations, calls[k].convId, replyMessage(result, t))
    /\ isLoading' = FALSE
    /\ calls' = [j \in 1..(Len(calls) - 1) |->
                    IF j < k THEN calls[j] ELSE calls[j + 1]]
    /\ saveEffect(conversations')
    /\ rejected' = FALSE
    /\ UNCHANGED <<activeConversationId, storageFull, requests>>

agentReturns ==
    \E k \in 1..Len(calls) :
    \E result \in AgentOutcomes :
    \E t \in ClockReads(now) :
        agentReturned(k, result, t)

Next ==
    \/ Load
    \/ handleNewChat
    \/ selectConversation
    \/ \E messageText \in Texts : handleSendMessage(messageText)
    \/ agentReturns

Spec == Init /\ [][Next]_vars

\* The awaited call settles: callAIAgent returns or throws, and the rest of
\* handleSendMessage then runs.
FairSpec == Spec /\ WF_vars(agentReturns)

\* ------------------------------------------------------------ properties
Last(seq) == seq[Len(seq)]

\* the first 50 characters of a text, or all of it when it is shorter
Truncated(text) ==
    [i \in 1..(IF Len(text) < 50 THEN Len(text) ELSE 50) |-> text[i]]

\* a text is blank when it holds nothing but white space
Blank(text) == \A i \in 1..Len(text) : text[i] \in {" ", "\t", "\n"}

\* the conversations carrying the id
WithId(list, id) == { i \in 1..Len(list) : list[i].id = id }

\* the message count of the active conversation, 0 when none is active
ActiveCount(list, id) ==
    IF findIndex(list, id, 1) = 0 THEN 0
    ELSE Len(list[findIndex(list, id, 1)].messages)

\* C1: single-flight guard.  In every reachable state at most one callAIAgent
\* invocation is outstanding, counted over all conversations.
SingleFlight == Len(calls) <= 1

\* a call is outstanding for one conversation while another conversation,
\* created or selected in the meantime, is the active one, and a further
\* submit has just been turned away
SingleFlightWitness ==
    /\ phase = "ready"
    /\ Len(calls) = 1
    /\ Len(conversations) = 2
    /\ activeConversationId # calls[1].convId
    /\ rejected

\* C2: ordering.  While a call is outstanding the user message it was issued
\* for is already the last message of the conversation it was sent in, and in
\* every conversation every agent message stands right after a user message,
\* the one it answers.
UserMessageBeforeReply ==
    /\ \A k \in 1..Len(calls) :
       \E i \in WithId(conversations, calls[k].convId) :
          /\ conversations[i].messages # <<>>
          /\ Last(conversations[i].messages).role = "user"
          /\ Last(conversations[i].messages).content = calls[k].messageText
    /\ \A i \in 1..Len(conversations) :
       \A j \in 1..Len(conversations[i].messages) :
          conversations[i].messages[j].role = "agent" =>
             /\ j > 1
             /\ conversations[i].messages[j - 1].role = "user"

\* the ordering of C2 in the states where no two conversations share an id
UserMessageBeforeReplyGivenUniqueIds ==
    (\A i, j \in 1..Len(conversations) :
        i # j => conversations[i].id # conversations[j].id)
    => UserMessageBeforeReply

\* what C3 says of a submit of `text`: one more message in the active
\* conversation, the last one, from the user and with the text as content
AppendedToActive(text) ==
    LET a == findIndex(conversations', activeConversationId', 1) IN
    /\ a # 0
    /\ Len(conversations'[a].messages) =
          ActiveCount(conversations, activeConversationId) + 1
    /\ Last(conversations'[a].messages).role = "user"
    /\ Last(conversations'[a].messages).content = text

\* C3 as stated: for all non-empty text, submit-text increases the active
\* conversation's message count by exactly one, and the new last message has
\* role user and content equal to the text.
SubmitAlwaysAppends ==
    [][\A text \in Texts :
          (text # <<>> /\ handleSendMessage(text)) => AppendedToActive(text)]_vars

\* C3 as amended: for all text that is not blank, submitted while no send is
\* in flight, submit-text increases the active conversation's message count
\* by exactly one (from zero when the conversation is created by the submit),
\* and the new last message has role user and content equal to the text.
AcceptedSubmitAppends ==
    [][\A text \in Texts :
          (~Blank(text) /\ ~isLoading /\ handleSendMessage(text))
             => AppendedToActive(text)]_vars

\* a padded text has been appended, as typed, to a conversation that already
\* held an exchange
AcceptedSubmitAppendsWitness ==
    /\ isLoading
    /\ activeConversation # 0
    /\ Len(conversations[activeConversation].messages) = 3
    /\ Last(conversations[activeConversation].messages).role = "user"
    /\ Last(conversations[activeConversation].messages).content = <<" ", "H", "i">>

\* C4: a rejected submit is a silent no-op.  A submit of an empty or blank
\* text, or of any text while a send is in flight, changes neither the
\* conversation list, the active id, the pending flag nor the storage, and
\* issues no call.
RejectedSubmitIsNoOp ==
    [][\A text \in Texts :
          ((Blank(text) \/ isLoading) /\ handleSendMessage(text))
             => UNCHANGED <<phase, conversations, activeConversationId,
                            isLoading, storage, calls, requests>>]_vars

\* a submit has just been turned away while a send was in flight and the
\* active conversation, still empty, offered its prompts
RejectedSubmitIsNoOpWitness ==
    /\ rejected
    /\ isLoading
    /\ activeConversation # 0
    /\ conversations[activeConversation].messages = <<>>

\* C5: after the call returns Success, every conversation carrying the id the
\* user message was sent in (there is one) gains exactly one message, an
\* agent message whose content is the payload's answer and whose response is
\* the payload.
SuccessAppendsAnswer ==
    [][\A k \in 1..Len(calls) :
       \A result \in AgentOutcomes :
       \A t \in ClockReads(now) :
          ( /\ ~result.throws /\ result.success /\ result.status = "success"
            /\ agentReturned(k, result, t) )
          => /\ WithId(conversations, calls[k].convId) # {}
             /\ Len(conversations') = Len(conversations)
             /\ \A i \in WithId(conversations, calls[k].convId) :
                   /\ Len(conversations'[i].messages) =
                         Len(conversations[i].messages) + 1
                   /\ SubSeq(conversations'[i].messages, 1,
                             Len(conversations[i].messages))
                         = conversations[i].messages
                   /\ Last(conversations'[i].messages).role = "agent"
                   /\ Last(conversations'[i].messages).content = result.result.answer
                   /\ Last(conversations'[i].messages).response
                         = <<result.result>>]_vars

\* a conversation of this session ends with an answer that carries its payload
SuccessAppendsAnswerWitness ==
    /\ calls = <<>>
    /\ requests >= 1
    /\ \E i \in 1..Len(conversations) :
          /\ conversations[i].messages # <<>>
          /\ Last(conversations[i].messages).timestamp > StoredClock
          /\ Last(conversations[i].messages).role = "agent"
          /\ Last(conversations[i].messages).response # <<>>
          /\ Last(conversations[i].messages).content
                = Last(conversations[i].messages).response[1].answer

FirstSendCreatesConversation ==
    [][\A text \in Texts :
          ( /\ ~Blank(text) /\ ~isLoading /\ activeConversationId = NoId
            /\ handleSendMessage(text) )
          => /\ Len(conversations') = Len(conversations) + 1
             /\ Tail(conversations') = conversations
             /\ activeConversationId' = conversations'[1].id
             /\ activeConversationId' # NoId
             /\ conversations'[1].title = Truncated(text)
             /\ Len(conversations'[1].messages) = 1
             /\ conversations'[1].messages[1].role = "user"
             /\ conversations'[1].messages[1].content = text]_vars

\* the first send of a session carried a text longer than a title
FirstSendCreatesConversationWitness ==
    /\ Len(conversations) = 1
    /\ requests = 1
    /\ isLoading
    /\ activeConversationId = conversations[1].id
    /\ Len(conversations[1].messages) = 1
    /\ Len(conversations[1].messages[1].content) > 50
    /\ Len(conversations[1].title) = 50

\* C8: every conversation that holds a message is titled with the first 50
\* characters of its first message.
TitleFromFirstMessage ==
    \A i \in 1..Len(conversations) :
       conversations[i].messages # <<>> =>
          conversations[i].title = Truncated(conversations[i].messages[1].content)

\* the titles of C8 in the states where no two conversations share an id
TitleFromFirstMessageGivenUniqueIds ==
    (\A i, j \in 1..Len(conversations) :
        i # j => conversations[i].id # conversations[j].id)
    => TitleFromFirstMessage

\* C9: the title of a conversation that holds a message never changes; the
\* list only grows at the front, so a conversation at position i stands at
\* position i + (growth) after a step.
TitleSetOnce ==
    [][/\ Len(conversations') >= Len(conversations)
       /\ \A i \in 1..Len(conversations) :
             conversations[i].messages # <<>> =>
                conversations'[i + Len(conversations') - Len(conversations)].title
                   = conversations[i].title]_vars

\* a conversation has received a third message whose text differs from its
\* first message's, and is still titled by the first
TitleSetOnceWitness ==
    \E i \in 1..Len(conversations) :
       /\ Len(conversations[i].messages) >= 3
       /\ conversations[i].messages[3].role = "user"
       /\ conversations[i].messages[3].content
             # conversations[i].messages[1].content
       /\ conversations[i].title = Truncated(conversations[i].messages[1].content)

\* C10: conversation ids are unique within the store.
UniqueConversationIds ==
    \A i, j \in 1..Len(conversations) :
       i # j => conversations[i].id # conversations[j].id

\* C11: message ids are unique.  In every reachable state no two messages of
\* the same conversation have the same id.
UniqueMessageIds ==
    \A c \in 1..Len(conversations) :
       \A i, j \in 1..Len(conversations[c].messages) :
          i # j => conversations[c].messages[i].id
                      # conversations[c].messages[j].id

\* the conversations of the list before a step keep their order in the list
\* after it, behind the `Len(after) - Len(before)` conversations put in front
Shift(before, after) == Len(after) - Len(before)

\* C12: messages are append-only.  For every conversation and every step the
\* message sequence before the step is a prefix of the message sequence after
\* it: nothing is edited, removed or reordered.
MessagesAppendOnly ==
    [][/\ Shift(conversations, conversations') >= 0
       /\ \A i \in 1..Len(conversations) :
             LET before == conversations[i].messages
                 after == conversations'[i + Shift(conversations, conversations')].messages
             IN /\ Len(before) <= Len(after)
                /\ \A j \in 1..Len(before) : after[j] = before[j]]_vars

\* a conversation that grew, one message at a time, to two turns with their
\* replies
MessagesAppendOnlyWitness ==
    /\ phase = "ready"
    /\ \E i \in 1..Len(conversations) :
          LET m == conversations[i].messages IN
          /\ Len(m) = 4
          /\ m[1].role = "user" /\ m[2].role = "agent"
          /\ m[3].role = "user" /\ m[4].role = "agent"
          /\ m[3].timestamp > StoredClock

\* what C13 says of a new-chat step: one more conversation, at the front,
\* without messages and with the default title, which is the active one; the
\* conversations already there, the pending flag and the outstanding call
\* are as before
NewChatPost ==
    /\ Len(conversations') = Len(conversations) + 1
    /\ Tail(conversations') = conversations
    /\ conversations'[1].messages = <<>>
    /\ conversations'[1].title = DefaultTitle
    /\ activeConversationId' = conversations'[1].id
    /\ findIndex(conversations', activeConversationId', 1) = 1
    /\ isLoading' = isLoading
    /\ calls' = calls

\* C13: new-chat always succeeds, including while a send is pending.  It is
\* available in every state of the running page, whatever the pending flag,
\* and every new-chat step inserts at the front one conversation with no
\* messages and the title "New Conversation", makes it the active one, and
\* leaves the existing conversations and the pending flag unchanged.
NewChatAlwaysSucceeds ==
    /\ []((phase = "ready" /\ Len(conversations) + requests < MaxSession)
            => ENABLED handleNewChat)
    /\ [][handleNewChat => NewChatPost]_vars

\* a conversation created while a send in another conversation is pending
NewChatAlwaysSucceedsWitness ==
    /\ phase = "ready"
    /\ isLoading
    /\ Len(calls) = 1
    /\ Len(conversations) >= 2
    /\ conversations[1].messages = <<>>
    /\ conversations[1].title = DefaultTitle
    /\ activeConversationId = conversations[1].id
    /\ conversations[2].messages # <<>>
    /\ calls[1].convId = conversations[2].id

\* C14: conversations are never deleted.  After the startup load no step
\* removes a conversation or changes the relative order of those already in
\* the list; the list changes only by gaining one conversation at the front.
ConversationsNeverDeleted ==
    [][phase = "ready" =>
         /\ Shift(conversations, conversations') \in {0, 1}
         /\ \A i \in 1..Len(conversations) :
               LET after == conversations'[i + Shift(conversations, conversations')]
               IN /\ after.id = conversations[i].id
                  /\ after.timestamp = conversations[i].timestamp]_vars

\* the loaded conversation is still the last of the list after two more were
\* put in front of it
ConversationsNeverDeletedWitness ==
    /\ phase = "ready"
    /\ Len(conversations) = 3
    /\ conversations[3].timestamp < StoredClock
    /\ conversations[2].timestamp > StoredClock
    /\ conversations[1].timestamp >= conversations[2].timestamp

\* C15: persistence follows every addition.  Whenever the page is running
\* (every save so far went through) and the list is non-empty, the stored
\* value is the serialization of the current in-memory list.
StoredFollowsList ==
    (phase = "ready" /\ Len(conversations) > 0)
       => storage = JSONstringify(conversations)

\* the stored list holds the conversation and the four messages added in
\* this session
StoredFollowsListWitness ==
    /\ phase = "ready"
    /\ requests = 2
    /\ ~isLoading
    /\ storage.kind = "array"
    /\ Len(storage.items) = 1
    /\ Len(storage.items[1].messages) = 4
    /\ Len(conversations[1].messages) = 4

\* C16: persist is skipped for an empty list.  No step writes an empty list:
\* whenever the stored value changes, the new value is a non-empty list, so
\* what was stored before the page loaded is never replaced by an empty list,
\* the renders before and after a failed load included.
NeverStoresEmptyList ==
    [][storage' # storage =>
         (storage'.kind = "array" /\ Len(storage'.items) > 0)]_vars

\* the page is up with an empty list, its save effect has run, and the text
\* that could not be parsed is still what the key holds
NeverStoresEmptyListWitness ==
    /\ phase = "ready"
    /\ conversations = <<>>
    /\ ~storageFull
    /\ storage.kind = "malformed"

ParseFailureNotFatal ==
    /\ [][(phase = "mount" /\ storage.kind = "malformed") =>
            /\ phase' = "ready"
            /\ conversations' = <<>>
            /\ activeConversationId' = NoId]_vars
    /\ []((phase = "ready" /\ storage.kind = "malformed" /\ conversations = <<>>)
            => /\ ENABLED handleNewChat
               /\ \A text \in Texts :
                     ~Blank(text) =>
                        /\ ~sendRejected(text)
                        /\ ENABLED handleSendMessage(text))

\* the page after a load that found text it could not parse
ParseFailureNotFatalWitness ==
    /\ phase = "ready"
    /\ storage.kind = "malformed"
    /\ conversations = <<>>
    /\ activeConversationId = NoId
    /\ ~isLoading
    /\ ~rejected

\* C19: a storage read or write failure is handled and never blocks the chat.
\* Unless the stored value is JSON that is not a list, the page is never
\* taken down: whether getItem throws or setItem throws, the page stays up
\* with its list.
StorageFailureHandled ==
    storage.kind \notin {"null", "object"} => phase # "crashed"

\* the user messages added in this session, as positions in the store
SessionUserMessages ==
    { p \in UNION { { <<i, j>> : j \in 1..Len(conversations[i].messages) } :
                      i \in 1..Len(conversations) } :
         /\ conversations[p[1]].messages[p[2]].role = "user"
         /\ conversations[p[1]].messages[p[2]].timestamp > StoredClock }

\* C20: one agent request per accepted user turn.  In every reachable state
\* the number of calls issued so far equals the number of user messages
\* appended in the session: no call without a message, none for a rejected
\* submit, no second call after a failure.
OneRequestPerUserMessage == requests = Cardinality(SessionUserMessages)

\* the count of C20 in the states where no two conversations share an id
OneRequestPerUserMessageGivenUniqueIds ==
    (\A i, j \in 1..Len(conversations) :
        i # j => conversations[i].id # conversations[j].id)
    => OneRequestPerUserMessage

\* what C21 and C22 say of the step in which call k ends: every conversation
\* carrying the call's id (there is one) gains one agent message, without a
\* response and with the given content
ErrorReplyAppended(k, content) ==
    /\ WithId(conversations, calls[k].convId) # {}
    /\ \A i \in WithId(conversations, calls[k].convId) :
          /\ Len(conversations'[i].messages) = Len(conversations[i].messages) + 1
          /\ Last(conversations'[i].messages).role = "agent"
          /\ Last(conversations'[i].messages).content = content
          /\ Last(conversations'[i].messages).response = <<>>

\* C21: protocol error.  When the call returns a result that is not a success
\* (success false, or a status other than success), the agent message
\* appended has the result's error text as content when there is one and the
\* generic fallback text otherwise, and carries no response.
ProtocolErrorText ==
    [][\A k \in 1..Len(calls) :
       \A result \in AgentOutcomes :
       \A t \in ClockReads(now) :
          ( /\ ~result.throws
            /\ ~(result.success /\ result.status = "success")
            /\ agentReturned(k, result, t) )
          => ErrorReplyAppended(k, IF result.error # <<>> THEN result.error
                                   ELSE ErrorFallbackText)]_vars

\* a conversation of this session ends with the error text the server sent
ProtocolErrorTextWitness ==
    /\ phase = "ready"
    /\ calls = <<>>
    /\ \E i \in 1..Len(conversations) :
          /\ conversations[i].messages # <<>>
          /\ Last(conversations[i].messages).timestamp > StoredClock
          /\ Last(conversations[i].messages).role = "agent"
          /\ Last(conversations[i].messages).response = <<>>
          /\ Last(conversations[i].messages).content = <<"n", "o">>

CasePairs ==
    { <<UpperCase[n], LowerCase[n]>> : n \in 1..26 }
       \cup { <<LowerCase[n], UpperCase[n]>> : n \in 1..26 }

SameLetter(a, b) == a = b \/ <<a, b>> \in CasePairs

\* the conversations of the list whose title contains the query, case ignored
Matching(list, query) ==
    { i \in 1..Len(list) :
         \E offset \in 0..(Len(list[i].title) - Len(query)) :
            \A k \in 1..Len(query) :
               SameLetter(list[i].title[offset + k], query[k]) }

\* C23: filterByTitle.  In every reachable state and for every query, the
\* filtered list holds exactly the conversations whose title contains the
\* query as a case-insensitive substring, in the order they have in the
\* conversation list; for the empty query it is the whole list.  The filter
\* is a value computed from the list: it writes nothing.
FilterByTitle ==
    [](\A query \in Queries :
         LET found == Matching(conversations, query)
             inOrder == [k \in 1..Cardinality(found) |->
                           conversations[CHOOSE i \in found :
                              Cardinality({ j \in found : j <= i }) = k]]
         IN /\ filteredConversations(conversations, query) = inOrder
            /\ query = <<>> => found = 1..Len(conversations))

\* a query whose letters differ in case from the titles' picks the first and
\* the third of three conversations and leaves out the second
FilterByTitleWitness ==
    /\ phase = "ready"
    /\ Len(conversations) = 3
    /\ filteredConversations(conversations, <<"n", "E">>)
          = <<conversations[1], conversations[3]>>
    /\ conversations[2].title # conversations[3].title
    /\ conversations[1].messages # conversations[3].messages

\* no two conversations of the list share an id
DistinctIds ==
    \A i, j \in 1..Len(conversations) :
       i # j => conversations[i].id # conversations[j].id

\* C24: at most one conversation is active and the active id is never
\* dangling.  In every reachable state either no conversation is active and
\* the list is empty, or the active id is the id of exactly one conversation
\* of the list.
OneActiveConversation ==
    \/ activeConversationId = NoId /\ conversations = <<>>
    \/ Cardinality(WithId(conversations, activeConversationId)) = 1

\* the statement of C24 in the states where no two conversations share an id
OneActiveConversationGivenUniqueIds == DistinctIds => OneActiveConversation

\* what C26 says of the step in which call k ends: a conversation carrying
\* the call's id gains the reply, and a conversation that did not receive the
\* user message of the call keeps its messages
RoutedToOrigin(k) ==
    /\ \E i \in WithId(conversations, calls[k].convId) :
          /\ Len(conversations'[i].messages) = Len(conversations[i].messages) + 1
          /\ Last(conversations'[i].messages).role = "agent"
    /\ \A i \in 1..Len(conversations) :
          ( \/ conversations[i].messages = <<>>
            \/ Last(conversations[i].messages).role # "user"
            \/ Last(conversations[i].messages).content # calls[k].messageText )
          => conversations'[i].messages = conversations[i].messages

\* C26: the reply is routed to the originating conversation.  Whatever
\* conversation new-chat or select made active while the send was pending,
\* the agent or error message is appended to the conversation that received
\* the user message, and a conversation that did not receive it, the one
\* active at completion included, keeps its messages.
ReplyRoutedToOrigin ==
    [][\A k \in 1..Len(calls) :
       \A result \in AgentOutcomes :
       \A t \in ClockReads(now) :
          agentReturned(k, result, t) => RoutedToOrigin(k)]_vars

\* the routing of C26 in the steps that start with no id shared
ReplyRoutedToOriginGivenUniqueIds ==
    [][\A k \in 1..Len(calls) :
       \A result \in AgentOutcomes :
       \A t \in ClockReads(now) :
          (DistinctIds /\ agentReturned(k, result, t)) => RoutedToOrigin(k)]_vars

\* the messages of the list, as positions
MessagePositions(list) ==
    UNION { { <<i, j>> : j \in 1..Len(list[i].messages) } : i \in 1..Len(list) }

\* what C27 says of a step after the load that adds messages: either the list
\* keeps its length and exactly one conversation changes, by one message at
\* the end and nothing else, or one conversation with one message is put in
\* front and every other conversation is as before
AppendFrame ==
    (phase = "ready"
       /\ Cardinality(MessagePositions(conversations'))
             > Cardinality(MessagePositions(conversations)))
    => \/ /\ Len(conversations') = Len(conversations)
          /\ \E i \in 1..Len(conversations) :
                /\ conversations'[i].messages # conversations[i].messages
                /\ Len(conversations'[i].messages)
                      = Len(conversations[i].messages) + 1
                /\ \A j \in 1..Len(conversations) :
                      j # i => conversations'[j] = conversations[j]
       \/ /\ Len(conversations') = Len(conversations) + 1
          /\ Len(conversations'[1].messages) = 1
          /\ Tail(conversations') = conversations

\* C27: frame of an append.  Each append of a user message and each append of
\* a reply changes the messages of exactly one conversation of the list, by
\* exactly one message, and leaves the messages and the title of every other
\* conversation as they were.
AppendChangesOneConversation == [][AppendFrame]_vars

\* the frame of C27 in the steps that start with no id shared
AppendChangesOneConversationGivenUniqueIds ==
    [][DistinctIds => AppendFrame]_vars

\* C28: starting from an empty store, in every reachable state the messages
\* of each conversation alternate user, agent, user, agent from a user
\* message on; the last message of a conversation is a user message only
\* while a send is pending, and of at most one conversation.
StrictAlternation ==
    (\A i \in 1..Len(conversations) : conversations[i].timestamp > StoredClock)
    => /\ \A i \in 1..Len(conversations) :
          \A j \in 1..Len(conversations[i].messages) :
             conversations[i].messages[j].role =
                (IF j % 2 = 1 THEN "user" ELSE "agent")
       /\ \A i \in 1..Len(conversations) :
             Len(conversations[i].messages) % 2 = 1 => isLoading
       /\ Cardinality({ i \in 1..Len(conversations) :
                           Len(conversations[i].messages) % 2 = 1 }) <= 1

\* the statement of C28 in the states where no two conversations share an id
StrictAlternationGivenUniqueIds == DistinctIds => StrictAlternation

\* a pending send is followed by a state where nothing is pending
PendingEnds == isLoading ~> ~isLoading

\* C25: every accepted send completes.  Given that the call returns or
\* throws, a pending send is followed by a state where nothing is pending;
\* the step in which the call ends appends exactly one agent message and
\* clears the pending flag, whatever the outcome; and the pending flag is
\* true exactly while a call is outstanding.
SendCompletes ==
    /\ [](isLoading <=> Len(calls) = 1)
    /\ [][\A k \in 1..Len(calls) :
          \A result \in AgentOutcomes :
          \A t \in ClockReads(now) :
             agentReturned(k, result, t)
             => /\ ~isLoading'
                /\ Cardinality(MessagePositions(conversations'))
                      = Cardinality(MessagePositions(conversations)) + 1]_vars
    /\ PendingEnds

\* the completion of C25 when no write to the storage is refused
SendCompletesGivenStorageWorks == ~storageFull => PendingEnds

\* C29: startup is safe for every stored value.  With a storage that can be
\* read and written, whatever the key holds, the load leaves the page running
\* with a list of conversations: the stored list when the key held one, the
\* empty list otherwise.
StartupSafe ==
    [][(phase = "mount" /\ storage.kind # "unreadable" /\ ~storageFull)
         => /\ phase' = "ready"
            /\ conversations' =
                  (IF storage.kind = "array" THEN JSONparse(storage) ELSE <<>>)]_vars

====
